---- MODULE Spec2Model ----
(***************************************************************************)
(* Model of cb_dynamodb.dynamodb.DynamoDB, a wrapper around the boto3      *)
(* DynamoDB client.  The wrapper's methods are the actions; the remote     *)
(* store (tables, secondary indexes, request validation, paging) is the    *)
(* environment the methods call into.                                      *)
(*                                                                         *)
(* Python strings are sequences of one-character strings, so that str(),   *)
(* lower(), split() and the f-strings of the source are computed.  Every   *)
(* other Python value is a record [t |-> type, v |-> payload].             *)
(***************************************************************************)
EXTENDS Integers, Sequences, FiniteSets, TLC

(***************************************************************************)
(* Bounds of the model.                                                    *)
(***************************************************************************)
\* largest number of items the table holds in the request/response model
MaxPosts == 2
\* number of items the store evaluates for one scan or query page (the
\* store's 1 MB page limit, counted in items)
PageSize == 1
\* largest number of items in the table when truncate_table starts
MaxItems == 27
\* a page limit large enough for every table of the truncate model
BigPage == 40
\* largest number of items in data_to_upload["_source"]
MaxSource == 2
\* largest number of items in a table DynamoSearch reads
MaxSearchItems == 3

(***************************************************************************)
(* Python values.                                                          *)
(***************************************************************************)
PyStr(s) == [t |-> "str", v |-> s]
PyInt(n) == [t |-> "int", v |-> n]
PyBool(b) == [t |-> "bool", v |-> b]
PyNone == [t |-> "none"]
PyList(l) == [t |-> "list", v |-> l]
PyDict(f) == [t |-> "dict", v |-> f]
PyTuple(l) == [t |-> "tuple", v |-> l]
\* a datetime.datetime object, identified by its year
PyDatetime(y) == [t |-> "datetime", v |-> y]

IsStr(x) == x.t = "str"
IsNone(x) == x.t = "none"
IsDict(x) == x.t = "dict"

\* string literals of the source
message_id == <<"m", "e", "s", "s", "a", "g", "e", "_", "i", "d">>
timestamp == <<"t", "i", "m", "e", "s", "t", "a", "m", "p">>
country_attr == <<"c", "o", "u", "n", "t", "r", "y">>
index_suffix == <<"-", "i", "n", "d", "e", "x">>
newhaven == <<"n", "e", "w", "h", "a", "v", "e", "n">>
new_haven == <<"n", "e", "w", " ", "h", "a", "v", "e", "n">>
new_plus_haven == <<"n", "e", "w", "+", "h", "a", "v", "e", "n">>
put == <<"p", "u", "t">>

(***************************************************************************)
(* str() and str.lower().                                                  *)
(***************************************************************************)
Digit(d) ==
    CASE d = 0 -> "0" [] d = 1 -> "1" [] d = 2 -> "2" [] d = 3 -> "3"
      [] d = 4 -> "4" [] d = 5 -> "5" [] d = 6 -> "6" [] d = 7 -> "7"
      [] d = 8 -> "8" [] d = 9 -> "9"

RECURSIVE IntToStr(_)
IntToStr(n) == IF n < 10 THEN <<Digit(n)>>
               ELSE Append(IntToStr(n \div 10), Digit(n % 10))

\* str(x) of a Python value
Str(x) ==
    CASE x.t = "str" -> x.v
      [] x.t = "int" -> IntToStr(x.v)
      [] x.t = "bool" -> IF x.v THEN <<"T", "r", "u", "e">>
                         ELSE <<"F", "a", "l", "s", "e">>
      [] x.t = "none" -> <<"N", "o", "n", "e">>
      [] x.t = "datetime" -> IntToStr(x.v) \o <<"-", "0", "1", "-", "0", "1">>
      [] x.t = "list" -> <<"[", "]">>

LowerChar(c) ==
    CASE c = "A" -> "a" [] c = "C" -> "c" [] c = "F" -> "f" [] c = "H" -> "h"
      [] c = "L" -> "l" [] c = "N" -> "n" [] c = "T" -> "t" [] c = "X" -> "x"
      [] OTHER -> c

\* s.lower()
Lower(s) == [i \in 1..Len(s) |-> LowerChar(s[i])]


(***************************************************************************)
(* State.                                                                  *)
(***************************************************************************)
VARIABLES
    table_name,      \* self.table_name of the DynamoDB instance
    country,         \* self.country of the DynamoDB instance
    table,           \* the items of the store's table, in the store's order
    pageLimit,       \* items the store evaluates for one page
    lastPosted,      \* the message of the latest successful post_message
    ret,             \* the latest wrapper call: name, arguments, outcome
    pc,              \* position of truncate_table
    index_count,     \* truncate_table: local index_count
    loops,           \* truncate_table: iterations of the for loop left
    start,           \* truncate_table: local start
    finish,          \* truncate_table: local finish
    all_items,       \* truncate_table: local all_items
    items_to_delete, \* truncate_table: local items_to_delete
    batches,         \* truncate_table: the RequestItems lists sent so far
    key_schema,      \* the key schema the store reports for the table
    response,        \* get_column: local response
    data,            \* get_column: local data
    scans            \* get_column: the scan requests and responses so far

vars == <<table_name, country, table, pageLimit, lastPosted, ret, pc,
          index_count, loops, start, finish, all_items, items_to_delete,
          batches, key_schema, response, data, scans>>

truncateLocals == <<index_count, loops, start, finish, all_items,
                    items_to_delete, batches>>

truncateVars == <<pc, truncateLocals>>

searchVars == <<key_schema, response, data, scans>>

(***************************************************************************)
(* The store: one table with a composite primary key and two global        *)
(* secondary indexes, reached through the boto3 client and resource.       *)
(***************************************************************************)
messages_staging == <<"m", "e", "s", "s", "a", "g", "e", "s", "_",
                      "s", "t", "a", "g", "i", "n", "g">>
asdfghj == <<"a", "s", "d", "f", "g", "h", "j">>
parent_id == <<"p", "a", "r", "e", "n", "t", "_", "i", "d">>
position == <<"p", "o", "s", "i", "t", "i", "o", "n">>
blah == <<"b", "l", "a", "h">>

\* the tables that exist in the store
ExistingTables == {messages_staging}

\* key schema of the table: truncate_table deletes by message_id and timestamp
KeySchema == <<[AttributeName |-> message_id, KeyType |-> "HASH"],
               [AttributeName |-> timestamp, KeyType |-> "RANGE"]>>

\* the global secondary indexes of the table, named "<attribute>-index"
GlobalSecondaryIndexes ==
    <<[IndexName |-> country_attr \o index_suffix,
       KeySchema |-> <<[AttributeName |-> country_attr, KeyType |-> "HASH"]>>],
      [IndexName |-> parent_id \o index_suffix,
       KeySchema |-> <<[AttributeName |-> parent_id, KeyType |-> "HASH"]>>]>>

IndexNames == {GlobalSecondaryIndexes[i].IndexName :
                  i \in 1..Len(GlobalSecondaryIndexes)}

\* the key schema of a secondary index
IndexKeySchema(name) ==
    LET i == CHOOSE j \in 1..Len(GlobalSecondaryIndexes) :
                 GlobalSecondaryIndexes[j].IndexName = name
    IN GlobalSecondaryIndexes[i].KeySchema

\* the hash key attribute of a secondary index
IndexKey(name) == IndexKeySchema(name)[1].AttributeName

TableKeys == {KeySchema[i].AttributeName : i \in 1..Len(KeySchema)}
IndexKeys == {IndexKey(n) : n \in IndexNames}

\* exceptions raised by the client
ParamValidationError == [cls |-> "ParamValidationError", code |-> "none"]
ClientError(c) == [cls |-> "ClientError", code |-> c]
ResourceNotFoundException == ClientError("ResourceNotFoundException")
ValidationException == ClientError("ValidationException")

\* botocore's request validation of a TableName: a non-empty string
ValidTableName(tn) == IsStr(tn) /\ Len(tn.v) > 0

\* botocore's request validation of an AttributeValue: a dict whose S member
\* is a string
ValidAttributeValue(a) == DOMAIN a = {"S"} /\ IsStr(a.S)

\* a key attribute the store accepts: a non-empty string
ValidKeyValue(a) == a.S.v # <<>>

Min(a, b) == IF a < b THEN a ELSE b

\* position in the table of the item with the primary key of `item`, 0 if none
KeyPosition(tbl, key) ==
    LET hits == {i \in 1..Len(tbl) :
                    \A k \in TableKeys : tbl[i][k] = key[k]}
    IN IF hits = {} THEN 0 ELSE CHOOSE i \in hits : TRUE

\* client.put_item(TableName, Item): the exceptions it can raise
PutItemErrors(tn, item) ==
    IF ~ValidTableName(tn) \/ \E k \in DOMAIN item : ~ValidAttributeValue(item[k])
    THEN {ParamValidationError}
    ELSE IF tn.v \notin ExistingTables THEN {ResourceNotFoundException}
    ELSE IF \/ \E k \in TableKeys : k \notin DOMAIN item
            \/ \E k \in (TableKeys \cup IndexKeys) \cap DOMAIN item :
                   ~ValidKeyValue(item[k])
    THEN {ValidationException}
    ELSE {}

\* client.put_item: the table after a successful put
PutItemTable(tbl, item) ==
    LET p == KeyPosition(tbl, item)
    IN IF p = 0 THEN Append(tbl, item) ELSE [tbl EXCEPT ![p] = item]

\* no response received yet
NoResponse == [Items |-> <<>>, Count |-> 0, LastEvaluatedKey |-> 0]

\* client.scan / table.scan: the exceptions it can raise
ScanErrors(tn) ==
    IF ~ValidTableName(tn) THEN {ParamValidationError}
    ELSE IF tn.v \notin ExistingTables THEN {ResourceNotFoundException}
    ELSE {}

\* client.scan: one page of the table, starting after position `after`;
\* LastEvaluatedKey is the position of the last item of the page when items
\* remain after it, and 0 (absent) otherwise
ScanPage(tbl, limit, after) ==
    LET last == Min(Len(tbl), after + limit)
    IN [Items |-> SubSeq(tbl, after + 1, last),
        Count |-> last - after,
        LastEvaluatedKey |-> IF last < Len(tbl) THEN last ELSE 0]

\* resource.Table(name).load(): the exceptions DescribeTable can raise
DescribeErrors(tn) ==
    IF ~ValidTableName(tn) THEN {ParamValidationError}
    ELSE IF tn.v \notin ExistingTables THEN {ResourceNotFoundException}
    ELSE {}

\* the subsequence of the elements s[i] of s with keep[i] true
RECURSIVE SelectSeqBy(_, _)
SelectSeqBy(s, keep) ==
    IF s = <<>> THEN <<>>
    ELSE (IF keep[1] THEN <<Head(s)>> ELSE <<>>)
         \o SelectSeqBy(Tail(s), Tail(keep))

\* a query without FilterExpression, and the test for a filter value
NoFilter == PyNone
HasFilter(c) == "S" \in DOMAIN c

\* client.query(TableName, IndexName, KeyConditionExpression "<attr> = :p",
\* ExpressionAttributeValues, FilterExpression "country = :c"): the
\* exceptions it can raise.  attr is the attribute named in the key
\* condition, p the value of :p, c the value of :c or NoFilter.
QueryErrors(tn, indexName, attr, p, c) ==
    IF \/ ~ValidTableName(tn)
       \/ ~ValidAttributeValue(p)
       \/ (HasFilter(c) /\ ~ValidAttributeValue(c))
    THEN {ParamValidationError}
    ELSE IF tn.v \notin ExistingTables
    THEN \* an expression that does not parse, or an empty key value, may be
         \* reported before the missing table is
         IF attr = <<>> \/ ~ValidKeyValue(p)
         THEN {ResourceNotFoundException, ValidationException}
         ELSE {ResourceNotFoundException}
    ELSE IF \/ attr = <<>>                      \* " = :p" does not parse
            \/ indexName \notin IndexNames      \* no such index on the table
            \/ IndexKey(indexName) # attr       \* condition misses the hash key
            \/ ~ValidKeyValue(p)                \* empty key value
            \/ (HasFilter(c) /\ country_attr = attr) \* filter on a key attribute
    THEN {ValidationException}
    ELSE {}

\* client.query: the first page of the items matching the key condition,
\* with the filter applied to the items of the page
QueryPage(tbl, limit, attr, p, c) ==
    LET hasKey == [i \in 1..Len(tbl) |->
                      attr \in DOMAIN tbl[i] /\ tbl[i][attr] = p]
        matched == SelectSeqBy(tbl, hasKey)
        page == SubSeq(matched, 1, Min(Len(matched), limit))
        passes == [i \in 1..Len(page) |->
                      ~HasFilter(c) \/ (country_attr \in DOMAIN page[i]
                                    /\ page[i][country_attr] = c)]
        items == SelectSeqBy(page, passes)
    IN [Items |-> items, Count |-> Len(items)]

\* client.batch_write_item(RequestItems={table: requests}): the exceptions
\* it can raise.  A request list must hold 1 to 25 requests and every key
\* value must be an AttributeValue.
BatchWriteErrors(tn, requests) ==
    IF \/ ~ValidTableName(tn)
       \/ Len(requests) < 1
       \/ Len(requests) > 25
       \/ \E i \in 1..Len(requests) :
             \E k \in DOMAIN requests[i].DeleteRequest.Key :
                LET a == requests[i].DeleteRequest.Key[k]
                IN ~ValidAttributeValue(a)
    THEN {ParamValidationError}
    ELSE IF tn.v \notin ExistingTables THEN {ResourceNotFoundException}
    ELSE {}

\* client.batch_write_item: the table after the delete requests
BatchWriteTable(tbl, requests) ==
    LET deleted == {KeyPosition(tbl, requests[i].DeleteRequest.Key) :
                       i \in 1..Len(requests)}
        keep == [i \in 1..Len(tbl) |-> i \notin deleted]
    IN SelectSeqBy(tbl, keep)


(***************************************************************************)
(* DynamoDB.__init__, format_message, unformat_message.                    *)
(***************************************************************************)
\* self.country as the constructor sets it
InitCountry(c) == IF c = PyStr(newhaven) THEN PyStr(new_haven) ELSE c

\* FormatValue without the call of lower()
FormatValue_NoLower(x) == IF IsNone(x) THEN PyStr(<<>>) ELSE PyStr(Str(x))

\* the value format_message writes for one input value
FormatValue(x) == IF IsNone(x) THEN PyStr(<<>>) ELSE PyStr(Lower(Str(x)))

\* format_message(dict_to_format, type_of_action, timestamp), with the uuid4
\* it draws and the clock it reads: the pair (message_uuid, formatted_message).
\* A dict_to_format without keys() leaves the loop through the except clause.
format_message(dict_to_format, type_of_action, ts, uuid, now) ==
    LET stamp == [S |-> IF IsNone(ts) THEN PyStr(Str(now)) ELSE ts]
        base == IF type_of_action = PyStr(put)
                THEN (message_id :> [S |-> PyStr(uuid)]) @@ (timestamp :> stamp)
                ELSE (timestamp :> stamp)
        keys == IF IsDict(dict_to_format) THEN DOMAIN dict_to_format.v ELSE {}
    IN PyTuple(<<PyStr(uuid),
                 PyDict([k \in (DOMAIN base) \cup keys |->
                            IF k \in keys
                            THEN [S |-> FormatValue(dict_to_format.v[k])]
                            ELSE base[k]])>>)

\* Deserialize that hands back the attribute value as the store holds it
Deserialize_Raw(a) == PyDict(a)

\* TypeDeserializer.deserialize of an S attribute
Deserialize(a) == a.S

\* unformat_message(to_unformat) of a list of items: a list of dicts
unformat_message(to_unformat) ==
    PyList([i \in 1..Len(to_unformat) |->
               PyDict([k \in DOMAIN to_unformat[i] |->
                          Deserialize(to_unformat[i][k])])])

(***************************************************************************)
(* Error translation of the wrapper methods.                               *)
(***************************************************************************)
\* only a ClientError carries a response attribute
HasResponse(e) == e.cls = "ClientError"

\* PostMessageError with every failure reported as a plain Exception
PostMessageError_Generic(e) == "Exception"

\* post_message: except ClientError / except Exception
PostMessageError(e) ==
    IF e.cls = "ClientError" THEN "FileNotFoundError" ELSE "Exception"

\* get_all_messages_from_index: except Exception, then error.response
GetAllMessagesError(e) ==
    IF ~HasResponse(e) THEN "AttributeError"
    ELSE IF e.code = "ResourceNotFoundException" THEN "FileNotFoundError"
    ELSE IF e.code = "ParamValidationError" THEN "AttributeError"
    ELSE "Exception"

\* GetIndexCountError with the not-found code reported as a plain failure
GetIndexCountError_Generic(e) ==
    IF e.cls = "ClientError"
    THEN IF e.code = "ParamValidationError" THEN "AttributeError"
         ELSE "Exception"
    ELSE "Exception"

\* get_index_count: except ClientError / ValueError / Exception; the bare
\* `raise ClientError` of the last branch fails to build the exception
GetIndexCountError(e) ==
    IF e.cls = "ClientError"
    THEN IF e.code = "ResourceNotFoundException" THEN "FileNotFoundError"
         ELSE IF e.code = "ParamValidationError" THEN "AttributeError"
         ELSE "TypeError"
    ELSE "Exception"

\* GetIndexKeySchemaError for an exception class that carries a response
\* whatever it is
GetIndexKeySchemaError_AnyResponse(e) ==
    IF e.code = "ResourceNotFoundException" THEN "FileNotFoundError"
    ELSE IF e.code = "ParamValidationError" THEN "AttributeError"
    ELSE "Exception"

\* get_index_key_schema: except Exception, then error.response
GetIndexKeySchemaError(e) ==
    IF ~HasResponse(e) THEN "AttributeError"
    ELSE IF e.code = "ResourceNotFoundException" THEN "FileNotFoundError"
    ELSE IF e.code = "ParamValidationError" THEN "AttributeError"
    ELSE "Exception"

\* get_index_secondary_indexes: except Exception, then error.response
GetIndexSecondaryIndexesError(e) ==
    IF ~HasResponse(e) THEN "AttributeError"
    ELSE IF e.code = "ResourceNotFoundException" THEN "FileNotFoundError"
    ELSE IF e.code = "ParamValidationError" THEN "AttributeError"
    ELSE "Exception"

\* SearchOnIndexError with ValidationException left to the last branch of a
\* handler that re-raises the client error
SearchOnIndexError_Reraise(e) ==
    IF e.cls = "ParamValidationError" THEN "TypeError"
    ELSE IF e.code = "ResourceNotFoundException" THEN "FileNotFoundError"
    ELSE "ClientError"

\* search_on_index: except ParamValidationError / except ClientError; the
\* bare `raise ClientError` of the last branch fails to build the exception
SearchOnIndexError(e) ==
    IF e.cls = "ParamValidationError" THEN "TypeError"
    ELSE IF e.code = "ValidationException" THEN "TypeError"
    ELSE IF e.code = "ResourceNotFoundException" THEN "FileNotFoundError"
    ELSE "TypeError"

(***************************************************************************)
(* Outcomes of the wrapper methods as functions of the store.              *)
(***************************************************************************)
\* a call that returned `value`
Returned(op, args, value) ==
    [op |-> op, args |-> args, raised |-> "none", value |-> value,
     store |-> "ok", item |-> PyNone, message_uuid |-> PyNone]

\* a call that raised `exc` after the store raised e
Raised(op, args, exc, e) ==
    [op |-> op, args |-> args, raised |-> exc, value |-> PyNone,
     store |-> IF e.cls = "ClientError" THEN e.code ELSE e.cls,
     item |-> PyNone, message_uuid |-> PyNone]

\* a call that raised `exc` although the store answered
RaisedAfterOk(op, args, exc) ==
    [op |-> op, args |-> args, raised |-> exc, value |-> PyNone,
     store |-> "ok", item |-> PyNone, message_uuid |-> PyNone]

\* a call that raised `exc` without a call of the store
Failed(op, args, exc) ==
    [op |-> op, args |-> args, raised |-> exc, value |-> PyNone,
     store |-> "none", item |-> PyNone, message_uuid |-> PyNone]

\* the outcome r of a call that handed the dict `item` to put_item
WithItem(r, item) ==
    [op |-> r.op, args |-> r.args, raised |-> r.raised, value |-> r.value,
     store |-> r.store, item |-> PyDict(item),
     message_uuid |-> r.message_uuid]

\* the outcome r of a call that logged "Message <uuid> saved successfully"
WithLog(r, uuid) == [r EXCEPT !.message_uuid = PyStr(uuid)]

\* no call made yet
NoCall == [op |-> "none", args |-> <<>>, raised |-> "none", value |-> PyNone,
           store |-> "none", item |-> PyNone, message_uuid |-> PyNone]

\* the table a method works on: the argument, or self.table_name for None
EffectiveTable(tn) == IF IsNone(tn) THEN table_name ELSE tn

\* the response of a successful put_item
PutItemResponse ==
    PyDict([ResponseMetadata |-> [HTTPStatusCode |-> 200]])

\* get_all_messages_from_index(table_name): the possible outcomes
get_all_messages_from_index(tn) ==
    LET op == "get_all_messages_from_index"
        errs == ScanErrors(EffectiveTable(tn))
    IN IF errs = {}
       THEN {Returned(op, <<tn>>,
                unformat_message(ScanPage(table, pageLimit, 0).Items))}
       ELSE {Raised(op, <<tn>>, GetAllMessagesError(e), e) : e \in errs}

\* get_index_count(table_name): the possible outcomes
get_index_count(tn) ==
    LET op == "get_index_count"
        errs == DescribeErrors(EffectiveTable(tn))
    IN IF errs = {}
       THEN {Returned(op, <<tn>>, PyInt(Len(table)))}
       ELSE {Raised(op, <<tn>>, GetIndexCountError(e), e) : e \in errs}

\* get_index_key_schema(table_name): the possible outcomes
get_index_key_schema(tn) ==
    LET op == "get_index_key_schema"
        errs == DescribeErrors(EffectiveTable(tn))
    IN IF errs = {}
       THEN {Returned(op, <<tn>>, PyList(KeySchema))}
       ELSE {Raised(op, <<tn>>, GetIndexKeySchemaError(e), e) : e \in errs}

\* get_index_secondary_indexes(table_name): the possible outcomes
get_index_secondary_indexes(tn) ==
    LET op == "get_index_secondary_indexes"
        errs == DescribeErrors(EffectiveTable(tn))
    IN IF errs = {}
       THEN {Returned(op, <<tn>>,
                PyDict([n \in IndexNames |-> PyList(IndexKeySchema(n))]))}
       ELSE {Raised(op, <<tn>>, GetIndexSecondaryIndexesError(e), e) :
                e \in errs}


(***************************************************************************)
(* unformat_message as a call: the argument is any Python value.           *)
(***************************************************************************)
\* the comprehension of unformat_message runs to its end: every element the
\* iteration of to_unformat yields has items(), and every value of every
\* element is an attribute value the deserializer knows.  The iteration of a
\* dict or of a string yields strings, which have no items().
ComprehensionCompletes(to_unformat) ==
    CASE to_unformat.t \in {"list", "tuple"} ->
            \A i \in 1..Len(to_unformat.v) :
                /\ IsDict(to_unformat.v[i])
                /\ \A k \in DOMAIN to_unformat.v[i].v :
                       DOMAIN to_unformat.v[i].v[k] = {"S"}
      [] to_unformat.t = "dict" -> DOMAIN to_unformat.v = {}
      [] to_unformat.t = "str" -> to_unformat.v = <<>>
      [] OTHER -> FALSE

\* the items of a list of dicts, as unformat_message iterates them
ItemsOf(to_unformat) ==
    IF to_unformat.t \in {"list", "tuple"}
    THEN [i \in 1..Len(to_unformat.v) |-> to_unformat.v[i].v]
    ELSE <<>>

\* unformat_message(to_unformat): the outcome.  An AttributeError or
\* TypeError of the comprehension is logged, and the return statement then
\* reads the local unformatted_message that was never bound.
UnformatMessageCall(to_unformat) ==
    IF ComprehensionCompletes(to_unformat)
    THEN Returned("unformat_message", <<to_unformat>>,
                  unformat_message(ItemsOf(to_unformat)))
    ELSE Failed("unformat_message", <<to_unformat>>, "UnboundLocalError")

(***************************************************************************)
(* search_on_index.                                                        *)
(***************************************************************************)
\* sub in s
Contains(s, sub) ==
    \E i \in 1..(Len(s) - Len(sub) + 1) : SubSeq(s, i, i + Len(sub) - 1) = sub

\* s.split(sep)[0] for a one-character separator
SplitFirst(s, sep) ==
    LET hits == {i \in 1..Len(s) : s[i] = sep}
    IN IF hits = {} THEN s
       ELSE SubSeq(s, 1, (CHOOSE i \in hits : \A j \in hits : i <= j) - 1)

\* the index name search_on_index works with
SearchIndex(index) ==
    IF Contains(index, index_suffix) THEN SplitFirst(index, "-") ELSE index

\* the value search_on_index works with
SearchValue(value) ==
    IF value = PyStr(new_plus_haven) THEN PyStr(new_haven) ELSE value

\* the FilterExpression values of the queries search_on_index sends, in order:
\* an unfiltered query for the country index, then the query chosen by
\* self.country
SearchQueries(index) ==
    (IF SearchIndex(index) = country_attr THEN <<NoFilter>> ELSE <<>>)
    \o <<IF IsNone(country) THEN NoFilter ELSE [S |-> country]>>

\* SearchResult without the check of response["Count"]
SearchResult_NoCountCheck(index, value, answer) ==
    Returned("search_on_index", <<PyStr(index), value>>,
             unformat_message(answer.Items))

\* what search_on_index does with the response of its last query
SearchResult(index, value, answer) ==
    IF answer.Count = 0
    THEN RaisedAfterOk("search_on_index", <<PyStr(index), value>>,
                       "FileNotFoundError")
    ELSE Returned("search_on_index", <<PyStr(index), value>>,
                  unformat_message(answer.Items))

\* search_on_index(index, value): the possible outcomes
search_on_index(index, value) ==
    LET op == "search_on_index"
        args == <<PyStr(index), value>>
        attr == SearchIndex(index)
        p == [S |-> PyStr(Str(SearchValue(value)))]
        queries == SearchQueries(index)
        errsOf(i) == QueryErrors(table_name, attr \o index_suffix, attr, p,
                                 queries[i])
        failing == {i \in 1..Len(queries) : errsOf(i) # {}}
    IN IF failing = {}
       THEN {SearchResult(index, value,
                QueryPage(table, pageLimit, attr, p, queries[Len(queries)]))}
       ELSE LET first == CHOOSE i \in failing : \A j \in failing : i <= j
            IN {Raised(op, args, SearchOnIndexError(e), e) : e \in errsOf(first)}

(***************************************************************************)
(* post_message.                                                           *)
(***************************************************************************)
\* "u<n>": the n-th identifier uuid4 can draw
Uuid(n) == <<"u">> \o IntToStr(n)

\* a uuid4 no item of the table carries
FreshUuid(tbl) ==
    LET used == {tbl[i][message_id].S.v : i \in 1..Len(tbl)}
        free == {n \in 1..(Len(tbl) + 1) : Uuid(n) \notin used}
    IN Uuid(CHOOSE n \in free : \A m \in free : n <= m)

\* the Item post_message hands to put_item
PostItem(message, ts, include_message_id, uuid, now) ==
    IF include_message_id
    THEN format_message(message, PyStr(put), ts, uuid, now).v[2].v
    ELSE format_message(message, PyNone, ts, uuid, now).v[2].v

\* post_message(message, timestamp, include_message_id): the possible outcomes
post_message(message, ts, include_message_id, uuid, now) ==
    LET op == "post_message"
        args == <<message, ts, PyBool(include_message_id)>>
        item == PostItem(message, ts, include_message_id, uuid, now)
        errs == PutItemErrors(table_name, item)
    IN IF errs = {}
       THEN {WithLog(WithItem(Returned(op, args, PutItemResponse), item),
                     uuid)}
       ELSE {WithItem(Raised(op, args, PostMessageError(e), e), item) :
                e \in errs}

(***************************************************************************)
(* upload_table.                                                           *)
(***************************************************************************)
\* the string repr(x): the Python literal that denotes the value x
Repr(x) == [t |-> "repr", v |-> x]

\* literal_eval(s) succeeds: s is the literal of a value
IsLiteral(s) == s.t = "repr"

\* literal_eval(s) of a literal
literal_eval(s) == s.v

items_uploaded == <<" ", "i", "t", "e", "m", "s", " ",
                    "u", "p", "l", "o", "a", "d", "e", "d">>

\* UploadReport of a counter that is never incremented
UploadReport_NoIncrement(counter) ==
    PyTuple(<<PyStr(IntToStr(0) \o items_uploaded), PyInt(200)>>)

\* the return value of upload_table: f"{counter} items uploaded", 200
UploadReport(counter) ==
    PyTuple(<<PyStr(IntToStr(counter) \o items_uploaded), PyInt(200)>>)

\* the for loop of upload_table from item i of source on, with the table,
\* the items handed to put_item and the message last posted so far: the
\* possible results.  counter counts the posts that returned.
RECURSIVE UploadLoop(_, _, _, _, _, _, _)
UploadLoop(source, i, ts, now, tbl, handed, posted) ==
    IF i > Len(source)
    THEN {[table |-> tbl, handed |-> handed, posted |-> posted,
           counter |-> i - 1, raised |-> "none", store |-> "ok"]}
    ELSE IF ~IsLiteral(source[i])
    THEN {[table |-> tbl, handed |-> handed, posted |-> posted,
           counter |-> i - 1, raised |-> "ValueError", store |-> "none"]}
    ELSE LET item_json == literal_eval(source[i])
             uuid == FreshUuid(tbl)
         IN UNION {IF r.raised = "none"
                   THEN UploadLoop(source, i + 1, ts, now,
                                   PutItemTable(tbl, r.item.v),
                                   Append(handed, r.item), item_json)
                   ELSE {[table |-> tbl, handed |-> Append(handed, r.item),
                          posted |-> posted, counter |-> i - 1,
                          raised |-> r.raised, store |-> r.store]} :
                   r \in post_message(item_json, ts, TRUE, uuid, now)}

\* upload_table(data_to_upload, timestamp) with source the list
\* data_to_upload["_source"]: the possible results, each with the outcome
\* of the call, whose item field lists the items handed to put_item
upload_table(source, ts, now) ==
    LET op == "upload_table"
        args == <<PyList(source), ts>>
    IN {[table |-> u.table,
         posted |-> u.posted,
         ret |-> [op |-> op, args |-> args, raised |-> u.raised,
                  value |-> IF u.raised = "none"
                            THEN UploadReport(u.counter) ELSE PyNone,
                  store |-> u.store, item |-> PyList(u.handed),
                  message_uuid |-> PyNone]] :
        u \in UploadLoop(source, 1, ts, now, table, <<>>, lastPosted)}

(***************************************************************************)
(* Inputs.                                                                 *)
(***************************************************************************)
cl == <<"c", "l">>
Cl == <<"C", "l">>

\* a message of lowercase strings
M1 == PyDict((country_attr :> PyStr(cl)) @@ (parent_id :> PyStr(<<"1">>))
             @@ (position :> PyStr(<<"h", "i">>)))
\* a message with an uppercase string, a number and None
M2 == PyDict((country_attr :> PyStr(Cl)) @@ (parent_id :> PyInt(22))
             @@ (position :> PyNone))
\* a message with None under an indexed attribute
M3 == PyDict((country_attr :> PyStr(cl)) @@ (parent_id :> PyNone))

\* a message that brings its own message_id
M4 == PyDict((message_id :> PyStr(<<"X">>)) @@ (country_attr :> PyStr(cl))
             @@ (parent_id :> PyStr(<<"1">>)))

Mappings == {M1, M2, M3, M4}
NonMappings == {PyList(<<>>), PyStr(<<>>), PyBool(TRUE)}
Messages == Mappings \cup NonMappings

\* what datetime.datetime.now() can return
Clock == {PyDatetime(2021)}
\* timestamp arguments: absent, the string of a time, a datetime object
Timestamps == {PyNone, PyStr(Str(PyDatetime(2021))), PyDatetime(2020)}
Actions == {PyNone, PyStr(put)}

TableNameArgs == {PyNone, PyStr(messages_staging), PyStr(asdfghj), PyStr(<<>>)}
InstanceTables == {PyStr(messages_staging), PyStr(asdfghj), PyStr(<<>>)}
CountryArgs == {PyNone, PyStr(cl), PyStr(Cl)}

\* the name of an index on an attribute whose name holds a hyphen
country_code_index == country_attr \o <<"-", "c", "o", "d", "e">> \o index_suffix

SearchIndexes == {country_attr, parent_id, parent_id \o index_suffix, blah,
                  <<>>, country_code_index}
SearchValues == {PyStr(cl), PyStr(Cl), PyStr(<<"1">>), PyInt(22), PyStr(<<>>)}

\* the formatted messages format_message returns without a timestamp
\* argument
FormattedMessages ==
    {format_message(m, a, PyNone, Uuid(1), now).v[2] :
        m \in Mappings, a \in Actions, now \in Clock}

\* arguments of unformat_message: a list of one formatted message, a
\* formatted message that is not wrapped in a list, the empty list, None
UnformatArgs ==
    {PyList(<<f>>) : f \in FormattedMessages} \cup FormattedMessages
    \cup {PyList(<<>>), PyNone}

\* the sequences over S of length 0 to n
RECURSIVE SeqsUpTo(_, _)
SeqsUpTo(S, n) ==
    IF n = 0 THEN {<<>>}
    ELSE LET shorter == SeqsUpTo(S, n - 1)
         IN shorter \cup {Append(q, x) : q \in shorter, x \in S}

\* items of data_to_upload["_source"]: the literal of a message that the
\* store accepts, the literal of one it rejects, a string that is no literal
SourceItems == {Repr(M1), Repr(M3), PyStr(blah)}
Sources == SeqsUpTo(SourceItems, MaxSource)
UploadTimestamps == {PyNone}

\* "no message" for lastPosted
Nothing == PyNone

(***************************************************************************)
(* Actions: one per public method.                                         *)
(***************************************************************************)
Init ==
    /\ table_name \in InstanceTables
    /\ country \in {InitCountry(c) : c \in CountryArgs}
    /\ table = <<>>
    /\ pageLimit = PageSize
    /\ lastPosted = Nothing
    /\ ret = NoCall
    /\ pc = "idle"
    /\ index_count = 0
    /\ loops = 0
    /\ start = 0
    /\ finish = 0
    /\ all_items = <<>>
    /\ items_to_delete = <<>>
    /\ batches = <<>>
    /\ key_schema = KeySchema
    /\ response = NoResponse
    /\ data = <<>>
    /\ scans = <<>>

FormatMessage ==
    \E m \in Messages, a \in Actions, ts \in Timestamps, now \in Clock :
        /\ ret' = Returned("format_message", <<m, a, ts>>,
                           format_message(m, a, ts, FreshUuid(table), now))
        /\ UNCHANGED <<table_name, country, table, pageLimit, lastPosted>>
        /\ UNCHANGED <<truncateVars, searchVars>>

PostMessage ==
    \E m \in Messages, ts \in Timestamps, inc \in BOOLEAN, now \in Clock :
        LET uuid == FreshUuid(table)
            item == PostItem(m, ts, inc, uuid, now)
        IN \E r \in post_message(m, ts, inc, uuid, now) :
              /\ ret' = r
              /\ IF r.raised = "none"
                 THEN /\ table' = PutItemTable(table, item)
                      /\ Len(table') <= MaxPosts
                      /\ lastPosted' = m
                 ELSE UNCHANGED <<table, lastPosted>>
              /\ UNCHANGED <<table_name, country, pageLimit>>
              /\ UNCHANGED <<truncateVars, searchVars>>

UploadTable ==
    \E source \in Sources, ts \in UploadTimestamps, now \in Clock :
        \E u \in upload_table(source, ts, now) :
            /\ Len(u.table) <= MaxPosts
            /\ table' = u.table
            /\ lastPosted' = u.posted
            /\ ret' = u.ret
            /\ UNCHANGED <<table_name, country, pageLimit>>
            /\ UNCHANGED <<truncateVars, searchVars>>

UnformatMessage ==
    \E to_unformat \in UnformatArgs :
        /\ ret' = UnformatMessageCall(to_unformat)
        /\ UNCHANGED <<table_name, country, table, pageLimit, lastPosted>>
        /\ UNCHANGED <<truncateVars, searchVars>>

GetAllMessagesFromIndex ==
    \E tn \in TableNameArgs :
        /\ \E r \in get_all_messages_from_index(tn) : ret' = r
        /\ UNCHANGED <<table_name, country, table, pageLimit, lastPosted>>
        /\ UNCHANGED <<truncateVars, searchVars>>

GetIndexCount ==
    \E tn \in TableNameArgs :
        /\ \E r \in get_index_count(tn) : ret' = r
        /\ UNCHANGED <<table_name, country, table, pageLimit, lastPosted>>
        /\ UNCHANGED <<truncateVars, searchVars>>

GetIndexKeySchema ==
    \E tn \in TableNameArgs :
        /\ \E r \in get_index_key_schema(tn) : ret' = r
        /\ UNCHANGED <<table_name, country, table, pageLimit, lastPosted>>
        /\ UNCHANGED <<truncateVars, searchVars>>

GetIndexSecondaryIndexes ==
    \E tn \in TableNameArgs :
        /\ \E r \in get_index_secondary_indexes(tn) : ret' = r
        /\ UNCHANGED <<table_name, country, table, pageLimit, lastPosted>>
        /\ UNCHANGED <<truncateVars, searchVars>>

SearchOnIndex ==
    \E index \in SearchIndexes, value \in SearchValues :
        /\ \E r \in search_on_index(index, value) : ret' = r
        /\ UNCHANGED <<table_name, country, table, pageLimit, lastPosted>>
        /\ UNCHANGED <<truncateVars, searchVars>>

Next ==
    \/ FormatMessage
    \/ PostMessage
    \/ GetAllMessagesFromIndex
    \/ GetIndexCount
    \/ GetIndexKeySchema
    \/ GetIndexSecondaryIndexes
    \/ SearchOnIndex

Spec == Init /\ [][Next]_vars

\* format_message and unformat_message, which leave the store alone
NextFormat ==
    \/ FormatMessage
    \/ UnformatMessage

SpecFormat == Init /\ [][NextFormat]_vars

\* upload_table on a table that starts empty
NextUpload == UploadTable

SpecUpload == Init /\ [][NextUpload]_vars


(***************************************************************************)
(* truncate_table, statement by statement.                                 *)
(***************************************************************************)
\* step = 25
step == 25

\* math.ceil(a / b)
Ceil(a, b) == (a + b - 1) \div b

\* Slice that takes the list from its first element: s[:to]
Slice_FromFirst(s, from, to) == SubSeq(s, 1, Min(to, Len(s)))

\* s[from:to] of a Python list
Slice(s, from, to) == SubSeq(s, from + 1, Min(to, Len(s)))

\* the delete request truncate_table builds for one unformatted item
DeleteRequest(item) ==
    [DeleteRequest |->
        [Key |-> (message_id :> item.v[message_id])
                 @@ (timestamp :> item.v[timestamp])]]

\* lines 531-535: index_count = self.get_index_count() and the locals
TruncateStart ==
    /\ pc = "idle"
    /\ \E r \in get_index_count(PyNone) :
          IF r.raised = "none"
          THEN /\ index_count' = r.value.v
               /\ loops' = Ceil(r.value.v, step)
               /\ start' = 0
               /\ finish' = 0 + step
               /\ items_to_delete' = <<>>
               /\ pc' = IF loops' > 0 THEN "scan" ELSE "done"
               /\ ret' = Returned("truncate_table", <<>>, PyNone)
          ELSE /\ pc' = "done"
               /\ ret' = [r EXCEPT !.op = "truncate_table", !.args = <<>>]
               /\ UNCHANGED <<index_count, loops, start, finish,
                              items_to_delete>>
    /\ UNCHANGED <<table_name, country, table, pageLimit, lastPosted,
                   all_items, batches>>
    /\ UNCHANGED searchVars

\* line 538: all_items = self.get_all_messages_from_index()
TruncateScan ==
    /\ pc = "scan"
    /\ \E r \in get_all_messages_from_index(PyNone) :
          IF r.raised = "none"
          THEN /\ all_items' = r.value.v
               /\ pc' = "build"
               /\ UNCHANGED ret
          ELSE /\ pc' = "done"
               /\ ret' = [r EXCEPT !.op = "truncate_table", !.args = <<>>]
               /\ UNCHANGED all_items
    /\ UNCHANGED <<table_name, country, table, pageLimit, lastPosted,
                   index_count, loops, start, finish, items_to_delete,
                   batches>>
    /\ UNCHANGED searchVars

\* lines 539-549: the delete requests of all_items[start:finish]
TruncateBuild ==
    /\ pc = "build"
    /\ LET chosen == Slice(all_items, start, finish)
       IN items_to_delete' =
              items_to_delete
              \o [i \in 1..Len(chosen) |-> DeleteRequest(chosen[i])]
    /\ pc' = "write"
    /\ UNCHANGED <<table_name, country, table, pageLimit, lastPosted, ret,
                   index_count, loops, start, finish, all_items, batches>>
    /\ UNCHANGED searchVars

\* lines 550-558: batch_write_item, with ParamValidationError passed over,
\* then the advance of start and finish
TruncateWrite ==
    /\ pc = "write"
    /\ batches' = Append(batches, items_to_delete)
    /\ LET errs == BatchWriteErrors(table_name, items_to_delete)
       IN IF errs = {}
          THEN /\ table' = BatchWriteTable(table, items_to_delete)
               /\ pc' = IF loops = 1 THEN "done" ELSE "scan"
               /\ UNCHANGED ret
          ELSE \E e \in errs :
                  /\ UNCHANGED table
                  /\ IF e.cls = "ParamValidationError"
                     THEN /\ pc' = IF loops = 1 THEN "done" ELSE "scan"
                          /\ UNCHANGED ret
                     ELSE /\ pc' = "done"
                          /\ ret' = Raised("truncate_table", <<>>,
                                           "ClientError", e)
    /\ start' = finish
    /\ finish' = finish + step
    /\ items_to_delete' = <<>>
    /\ loops' = loops - 1
    /\ UNCHANGED <<table_name, country, pageLimit, lastPosted, index_count,
                   all_items>>
    /\ UNCHANGED searchVars

\* the item truncate_table finds in the table: the n-th message posted
PostedItem(n) ==
    format_message(M1, PyStr(put), PyNone, Uuid(n), PyDatetime(2021)).v[2].v

InitTruncate ==
    /\ table_name \in {PyStr(messages_staging), PyStr(asdfghj)}
    /\ country = PyStr(cl)
    /\ \E n \in 0..MaxItems :
          table = IF table_name.v \in ExistingTables
                  THEN [i \in 1..n |-> PostedItem(i)] ELSE <<>>
    /\ pageLimit \in {PageSize, BigPage}
    /\ lastPosted = Nothing
    /\ ret = NoCall
    /\ pc = "idle"
    /\ index_count = 0
    /\ loops = 0
    /\ start = 0
    /\ finish = 0
    /\ all_items = <<>>
    /\ items_to_delete = <<>>
    /\ batches = <<>>
    /\ key_schema = KeySchema
    /\ response = NoResponse
    /\ data = <<>>
    /\ scans = <<>>

NextTruncate ==
    \/ TruncateStart
    \/ TruncateScan
    \/ TruncateBuild
    \/ TruncateWrite

SpecTruncate == InitTruncate /\ [][NextTruncate]_vars


(***************************************************************************)
(* DynamoSearch.get_item and DynamoSearch.get_column, through the boto3    *)
(* resource: the resource serializes the Python values it is given and     *)
(* deserializes the items it returns.                                      *)
(***************************************************************************)
\* the key schema of a table with a partition key only
HashKeySchema == <<[AttributeName |-> message_id, KeyType |-> "HASH"]>>

\* attribute names the store reserves: an expression that names one
\* directly is rejected
ReservedWords == {timestamp}

\* table.key_schema.pop()['AttributeName']: the name in the last element
TableKey(schema) == schema[Len(schema)].AttributeName

\* the key attributes of a schema
SchemaKeys(schema) == {schema[i].AttributeName : i \in 1..Len(schema)}

\* table.get_item(Key=key) of a dict of strings: the exceptions it can raise
GetItemErrors(tn, schema, key) ==
    IF ~ValidTableName(tn) THEN {ParamValidationError}
    ELSE IF tn.v \notin ExistingTables THEN {ResourceNotFoundException}
    ELSE IF \/ DOMAIN key # SchemaKeys(schema)    \* key does not match schema
            \/ \E k \in DOMAIN key : key[k].v = <<>>   \* empty key value
    THEN {ValidationException}
    ELSE {}

\* an item as the resource returns it
DeserializeItem(item) == PyDict([k \in DOMAIN item |-> Deserialize(item[k])])

\* table.get_item(Key=key): response.get("Item")
GetItemResponse(tbl, key) ==
    LET hits == {i \in 1..Len(tbl) :
                    \A k \in DOMAIN key : tbl[i][k].S = key[k]}
    IN IF hits = {} THEN PyNone
       ELSE DeserializeItem(tbl[CHOOSE i \in hits : TRUE])

\* `if filters:` of get_column
Truthy(filters) == IsDict(filters) /\ DOMAIN filters.v # {}

\* table.scan(ProjectionExpression="<table_key>, <attr_name>", ...): the
\* exceptions it can raise
ResourceScanErrors(tn, table_key, attr_name) ==
    IF ~ValidTableName(tn) THEN {ParamValidationError}
    ELSE IF tn.v \notin ExistingTables THEN {ResourceNotFoundException}
    ELSE IF \/ attr_name = <<>>                     \* "<key>, " does not parse
            \/ attr_name = table_key                \* overlapping paths
            \/ {table_key, attr_name} \cap ReservedWords # {}
    THEN {ValidationException}
    ELSE {}

\* table.scan: one page starting after position `after`; the filter is
\* applied to the items of the page, the projection to the items kept
ResourceScanPage(tbl, limit, after, table_key, attr_name, filters) ==
    LET last == Min(Len(tbl), after + limit)
        page == SubSeq(tbl, after + 1, last)
        passes == [i \in 1..Len(page) |->
                      Truthy(filters) =>
                          \A k \in DOMAIN filters.v :
                              /\ k \in DOMAIN page[i]
                              /\ page[i][k].S = filters.v[k]]
        kept == SelectSeqBy(page, passes)
        items == [i \in 1..Len(kept) |->
                     DeserializeItem(
                         [k \in (DOMAIN kept[i]) \cap {table_key, attr_name}
                             |-> kept[i][k]])]
    IN [Items |-> items, Count |-> Len(items),
        LastEvaluatedKey |-> IF last < Len(tbl) THEN last ELSE 0]

\* get_item and get_column: except ClientError; any other exception leaves
\* the method as it is
DynamoSearchError(e) ==
    IF e.cls = "ClientError" THEN "NotImplementedError" ELSE e.cls

\* get_item(table_name, key): the possible outcomes.  A string key reads
\* table.key_schema first, which describes the table.
get_item(tn, key) ==
    LET op == "get_item"
        args == <<tn, key>>
        derrs == IF IsStr(key) THEN DescribeErrors(tn) ELSE {}
        sent == IF IsStr(key) THEN (TableKey(key_schema) :> key) ELSE key.v
        errs == GetItemErrors(tn, key_schema, sent)
    IN IF derrs # {}
       THEN {Raised(op, args, DynamoSearchError(e), e) : e \in derrs}
       ELSE IF errs # {}
       THEN {WithItem(Raised(op, args, DynamoSearchError(e), e), sent) :
                e \in errs}
       ELSE {WithItem(Returned(op, args, GetItemResponse(table, sent)), sent)}

\* Extend that keeps only the latest page
Extend_Replace(d, items) == items

\* data.extend(response['Items'])
Extend(d, items) == d \o items

\* len(item) of a returned item
ItemLen(item) == Cardinality(DOMAIN item.v)

\* ColumnCheck that raises as soon as one item lacks the attribute
ColumnCheck_MinLen(d) ==
    IF Len(d) = 0 THEN "AttributeError"
    ELSE IF \E i \in 1..Len(d) : ItemLen(d[i]) = 1 THEN "AttributeError"
    ELSE "none"

\* lines 718-725: the exception the check of the lengths raises, "none" if
\* it raises none
ColumnCheck(d) ==
    IF Len(d) = 0 THEN "AttributeError"
    ELSE IF \A i \in 1..Len(d) : ItemLen(d[i]) <= 1 THEN "AttributeError"
    ELSE "none"

\* a scan of get_column and the response it got
Scanned(exclusiveStartKey, r) ==
    [ExclusiveStartKey |-> exclusiveStartKey, response |-> r]

\* lines 689-697 and 707-710: table.key_schema and the first scan
GetColumnStart(tn, attr_name, filters) ==
    /\ pc = "idle"
    /\ LET op == "get_column"
           args == <<tn, PyStr(attr_name), filters>>
           table_key == TableKey(key_schema)
           derrs == DescribeErrors(tn)
           serrs == ResourceScanErrors(tn, table_key, attr_name)
           first == ResourceScanPage(table, pageLimit, 0, table_key,
                                     attr_name, filters)
       IN IF derrs # {} \/ serrs # {}
          THEN /\ \E e \in (IF derrs # {} THEN derrs ELSE serrs) :
                      ret' = Raised(op, args, DynamoSearchError(e), e)
               /\ pc' = "idle"
               /\ scans' = <<>>
               /\ UNCHANGED <<response, data>>
          ELSE /\ response' = first
               /\ data' = first.Items
               /\ scans' = <<Scanned(0, first)>>
               /\ ret' = Returned(op, args, PyNone)
               /\ pc' = "column"
    /\ UNCHANGED <<table_name, country, table, pageLimit, lastPosted,
                   key_schema>>
    /\ UNCHANGED truncateLocals

\* lines 699-705 and 712-717: one turn of the while loop
GetColumnScan ==
    /\ pc = "column"
    /\ response.LastEvaluatedKey # 0
    /\ LET next == ResourceScanPage(table, pageLimit,
                                    response.LastEvaluatedKey,
                                    TableKey(key_schema), ret.args[2].v,
                                    ret.args[3])
       IN /\ response' = next
          /\ data' = Extend(data, next.Items)
          /\ scans' = Append(scans, Scanned(response.LastEvaluatedKey, next))
    /\ UNCHANGED <<table_name, country, table, pageLimit, lastPosted,
                   key_schema, ret, pc>>
    /\ UNCHANGED truncateLocals

\* lines 718-729: the loop has ended; the check of the lengths, the return
GetColumnCheck ==
    /\ pc = "column"
    /\ response.LastEvaluatedKey = 0
    /\ ret' = IF ColumnCheck(data) = "none"
              THEN Returned(ret.op, ret.args, PyList(data))
              ELSE RaisedAfterOk(ret.op, ret.args, ColumnCheck(data))
    /\ pc' = "idle"
    /\ UNCHANGED <<table_name, country, table, pageLimit, lastPosted,
                   key_schema, response, data, scans>>
    /\ UNCHANGED truncateLocals

\* a message without parent_id, of another country
ar == <<"a", "r">>
MA == PyDict((country_attr :> PyStr(ar)))

\* the i-th item of a table, posted from the message m
SearchItem(m, i) ==
    format_message(m, PyStr(put), PyNone, Uuid(i), PyDatetime(2021)).v[2].v

\* the tables DynamoSearch can find
SearchTables ==
    {[i \in 1..Len(ms) |-> SearchItem(ms[i], i)] :
        ms \in SeqsUpTo({M1, MA}, MaxSearchItems)}

\* table_name arguments
SearchTableNames == {PyStr(messages_staging), PyStr(asdfghj), PyStr(<<>>)}

\* key arguments of get_item: partition key values as strings, and dicts
\* with the partition key, or with the partition key and the sort key
ItemKeys ==
    {PyStr(Uuid(1)), PyStr(Uuid(MaxSearchItems + 1)), PyStr(<<>>),
     PyDict((message_id :> PyStr(Uuid(1)))),
     PyDict((message_id :> PyStr(Uuid(1)))
            @@ (timestamp :> PyStr(Str(PyDatetime(2021)))))}

\* attr_name arguments of get_column
AttrNames == {parent_id, country_attr, blah, message_id, timestamp}

\* filters arguments of get_column
Filters == {PyNone, PyDict(<<>>), PyDict((country_attr :> PyStr(cl)))}

GetItem ==
    /\ pc = "idle"
    /\ \E tn \in SearchTableNames, key \in ItemKeys :
          \E r \in get_item(tn, key) : ret' = r
    /\ UNCHANGED <<table_name, country, table, pageLimit, lastPosted, pc>>
    /\ UNCHANGED <<truncateLocals, searchVars>>

GetColumn ==
    \E tn \in SearchTableNames, attr_name \in AttrNames, filters \in Filters :
        GetColumnStart(tn, attr_name, filters)

InitSearch ==
    /\ table_name = PyStr(messages_staging)
    /\ country = PyNone
    /\ table \in SearchTables
    /\ key_schema \in {HashKeySchema, KeySchema}
    /\ pageLimit \in {PageSize, BigPage}
    /\ lastPosted = Nothing
    /\ ret = NoCall
    /\ pc = "idle"
    /\ index_count = 0
    /\ loops = 0
    /\ start = 0
    /\ finish = 0
    /\ all_items = <<>>
    /\ items_to_delete = <<>>
    /\ batches = <<>>
    /\ response = NoResponse
    /\ data = <<>>
    /\ scans = <<>>

NextSearch ==
    \/ GetItem
    \/ GetColumn
    \/ GetColumnScan
    \/ GetColumnCheck

SpecSearch == InitSearch /\ [][NextSearch]_vars

\* get_column runs on once called: its loop turns and its check are taken
SpecSearchLive ==
    SpecSearch /\ WF_vars(GetColumnScan) /\ WF_vars(GetColumnCheck)


(***************************************************************************)
(* Properties.                                                             *)
(***************************************************************************)
\* the formatted message of the latest format_message or post_message call
Formatted ==
    IF ret.op = "format_message" THEN ret.value.v[2].v ELSE ret.item.v

\* the first argument of the latest call
Arg1 == ret.args[1]

\* the second argument of the latest call
Arg2 == ret.args[2]

\* the table the latest get_* call worked on
CalledTable == EffectiveTable(Arg1)

GetOps == {"get_all_messages_from_index", "get_index_count",
           "get_index_key_schema", "get_index_secondary_indexes"}

\* C1: every attribute of every item post_message hands to put_item is
\* {"S": v} with v a string, for any message, timestamp argument and
\* include_message_id.
C1_HandedValuesAreStrings ==
    ret.op = "post_message" =>
        \A k \in DOMAIN ret.item.v :
            DOMAIN ret.item.v[k] = {"S"} /\ ret.item.v[k].S.t = "str"

\* C2 as stated: under every key k of the input mapping format_message (and
\* post_message) writes the lowercase string form str(value).lower(), and the
\* only other attributes are message_id and timestamp.
C2_LowercaseStringForm ==
    (ret.op \in {"format_message", "post_message"} /\ IsDict(Arg1)) =>
        /\ \A k \in DOMAIN Arg1.v :
              Formatted[k] = [S |-> PyStr(Lower(Str(Arg1.v[k])))]
        /\ (DOMAIN Formatted) \ (DOMAIN Arg1.v) \subseteq {message_id, timestamp}

\* C2 amended: under every key k of the input mapping format_message (and
\* post_message) writes the empty string when the value is None and the
\* lowercase string form str(value).lower() otherwise, and the only other
\* attributes are message_id and timestamp.
C2_LowercaseOrEmpty ==
    (ret.op \in {"format_message", "post_message"} /\ IsDict(Arg1)) =>
        /\ \A k \in DOMAIN Arg1.v :
              Formatted[k] = [S |-> IF Arg1.v[k] = PyNone THEN PyStr(<<>>)
                                    ELSE PyStr(Lower(Str(Arg1.v[k])))]
        /\ (DOMAIN Formatted) \ (DOMAIN Arg1.v) \subseteq {message_id, timestamp}

\* format_message has formatted a mapping that holds None, an uppercase
\* string and a number
C2_Witness ==
    /\ ret.op = "format_message"
    /\ Arg1 = M2
    /\ Formatted[position] = [S |-> PyStr(<<>>)]
    /\ Formatted[country_attr] = [S |-> PyStr(cl)]
    /\ Formatted[parent_id] = [S |-> PyStr(<<"2", "2">>)]

\* C3: when truncate_table returns, the table holds no items, for any
\* initial number of items.
C3_TruncateEmptiesTable ==
    (pc = "done" /\ ret.op = "truncate_table" /\ ret.raised = "none") =>
        table = <<>>

\* C4: get_all_messages_from_index returns exactly one unformatted record
\* for every item of the scanned table, also when the scan is paged.
C4_ReturnsAllMessages ==
    (ret.op = "get_all_messages_from_index" /\ ret.raised = "none") =>
        /\ Len(ret.value.v) = Len(table)
        /\ \A i \in 1..Len(table) :
              /\ DOMAIN ret.value.v[i].v = DOMAIN table[i]
              /\ \A k \in DOMAIN table[i] :
                    ret.value.v[i].v[k] = table[i][k].S

\* the record r without the attributes of names
Without(r, names) == [k \in (DOMAIN r) \ names |-> r[k]]

\* the mapping m with its string values lowercased
Lowercased(m) ==
    [k \in DOMAIN m |-> IF IsStr(m[k]) THEN PyStr(Lower(m[k].v)) ELSE m[k]]

\* C5: after post_message(m) succeeded on an instance whose country is
\* m["country"], search_on_index(k, m[k]) for a secondary index attribute k
\* returns a non-empty list whose first record has record[k] = m[k] and,
\* without message_id and timestamp, equals m with its values lowercased.
C5_PostedMessageIsFound ==
    (/\ ret.op = "search_on_index"
     /\ IsDict(lastPosted)
     /\ country_attr \in DOMAIN lastPosted.v
     /\ country = lastPosted.v[country_attr]
     /\ Arg1.v \in IndexKeys \cap DOMAIN lastPosted.v
     /\ Arg2 = lastPosted.v[Arg1.v]) =>
        /\ ret.raised = "none"
        /\ Len(ret.value.v) > 0
        /\ ret.value.v[1].v[Arg1.v] = lastPosted.v[Arg1.v]
        /\ Without(ret.value.v[1].v, {message_id, timestamp})
               = Lowercased(lastPosted.v)

\* the items of the table that match the latest search: the attribute named
\* by the index holds the value, and country holds self.country when set
MatchingItems ==
    {i \in 1..Len(table) :
        /\ SearchIndex(Arg1.v) \in DOMAIN table[i]
        /\ table[i][SearchIndex(Arg1.v)].S.v = Str(SearchValue(Arg2))
        /\ (country # PyNone =>
               /\ country_attr \in DOMAIN table[i]
               /\ table[i][country_attr].S = country)}

\* the instance's table exists in the store
TableExists == IsStr(table_name) /\ table_name.v \in ExistingTables

\* the instance's table has a well-formed name that the store does not know
TableMissing ==
    IsStr(table_name) /\ table_name.v # <<>>
    /\ table_name.v \notin ExistingTables

\* the latest search is well-formed whatever the table: a non-empty index
\* name and a non-empty value
WellFormedSearch == Arg1.v # <<>> /\ Str(SearchValue(Arg2)) # <<>>

\* the latest search named a secondary index of the table
IndexExists == (SearchIndex(Arg1.v) \o index_suffix) \in IndexNames

C8_MissingTableIsNotFound ==
    (/\ ret.op \in GetOps
     /\ IsStr(CalledTable)
     /\ CalledTable.v # <<>>
     /\ CalledTable.v \notin ExistingTables) =>
        ret.raised = "FileNotFoundError"

\* get_index_count was asked about a table the store does not have
C8_Witness ==
    /\ ret.op = "get_index_count"
    /\ Arg1 = PyStr(asdfghj)
    /\ ret.store = "ResourceNotFoundException"
    /\ ret.raised = "FileNotFoundError"

\* C9: with the empty string as table_name, get_all_messages_from_index,
\* get_index_key_schema and get_index_secondary_indexes raise
\* AttributeError, and get_index_count raises instead of returning a count.
C9_EmptyTableNameRaises ==
    (ret.op \in GetOps /\ Arg1 = PyStr(<<>>)) =>
        IF ret.op = "get_index_count" THEN ret.raised # "none"
        ELSE ret.raised = "AttributeError"

\* get_index_key_schema was called with the empty table name
C9_Witness ==
    /\ ret.op = "get_index_key_schema"
    /\ Arg1 = PyStr(<<>>)
    /\ ret.store = "ParamValidationError"
    /\ ret.raised = "AttributeError"

\* C10: format_message raises TypeError when dict_to_format is not a
\* mapping.
C10_NonMappingRaisesTypeError ==
    (ret.op = "format_message" /\ ~IsDict(Arg1)) => ret.raised = "TypeError"

\* C11: unformat_message raises TypeError when its argument is not a
\* non-empty list of formatted records: a formatted record passed without a
\* list around it and the empty list both end in TypeError.
C11_NotAListRaisesTypeError ==
    (/\ ret.op = "unformat_message"
     /\ (Arg1.t = "dict" \/ Arg1 = PyList(<<>>))) =>
        ret.raised = "TypeError"

\* the third argument of the latest call
Arg3 == ret.args[3]

\* C12: format_message of a mapping with type_of_action "put" returns
\* (message_uuid, formatted_message) with formatted_message["message_id"] =
\* {"S": message_uuid} and a timestamp; with another type_of_action the
\* formatted message has no message_id and only the timestamp is added; and
\* post_message with include_message_id=True hands put_item an item whose
\* message_id is the identifier it reports as saved.
C12_MessageIdIsReportedUuid ==
    /\ (ret.op = "format_message" /\ IsDict(Arg1)) =>
          IF Arg2 = PyStr(put)
          THEN /\ ret.value.v[2].v[message_id] = [S |-> ret.value.v[1]]
               /\ timestamp \in DOMAIN ret.value.v[2].v
          ELSE /\ message_id \notin DOMAIN ret.value.v[2].v
               /\ DOMAIN ret.value.v[2].v = (DOMAIN Arg1.v) \cup {timestamp}
    /\ (/\ ret.op = "post_message"
        /\ ret.raised = "none"
        /\ IsDict(Arg1)
        /\ Arg3 = PyBool(TRUE)) =>
          ret.item.v[message_id] = [S |-> ret.message_uuid]

\* C15: post_message makes one put_item call and either returns the store's
\* response, the item then being in the table, or raises: FileNotFoundError
\* for a client error of the store and Exception for any other failure; it
\* returns normally exactly when put_item succeeded.
C15_PostReturnsResponseOrRaises ==
    ret.op = "post_message" =>
        /\ IsDict(ret.item)
        /\ (ret.raised = "none" <=> ret.store = "ok")
        /\ (ret.raised = "none" =>
               /\ ret.value = PutItemResponse
               /\ \E i \in 1..Len(table) : table[i] = ret.item.v)
        /\ (ret.store \in {"ResourceNotFoundException", "ValidationException"}
               => ret.raised = "FileNotFoundError")
        /\ (ret.store = "ParamValidationError" => ret.raised = "Exception")

\* the store rejected the item of a post_message with a client error
C15_Witness ==
    /\ ret.op = "post_message"
    /\ TableExists
    /\ ret.store = "ValidationException"
    /\ ret.raised = "FileNotFoundError"

\* the index argument without a trailing "-index"
StripIndexSuffix(index) ==
    LET n == Len(index) - Len(index_suffix)
    IN IF n >= 0 /\ SubSeq(index, n + 1, Len(index)) = index_suffix
       THEN SubSeq(index, 1, n) ELSE index

\* C16: every record search_on_index(index, value) returns holds the value
\* under the attribute named by index without its trailing "-index", and
\* holds self.country under country when the instance has a country; also
\* for the index "country" and for index names with a hyphen.
C16_ReturnedRecordsMatch ==
    (ret.op = "search_on_index" /\ ret.raised = "none") =>
        \A i \in 1..Len(ret.value.v) :
            LET record == ret.value.v[i].v
                attr == StripIndexSuffix(Arg1.v)
            IN /\ attr \in DOMAIN record
               /\ record[attr] = PyStr(Str(Arg2))
               /\ (country # PyNone =>
                      /\ country_attr \in DOMAIN record
                      /\ record[country_attr] = country)

\* C17: for every mapping m, unformat_message([formatted]) with formatted
\* the message format_message made of m returns a list of one record that
\* maps every key of m to the lowercase string of m's value, the empty
\* string for None, and besides holds the timestamp (and the message_id
\* when format_message added one).
C17_UnformatInvertsFormat ==
    \A m \in Mappings, a \in Actions, now \in Clock :
        LET formatted == format_message(m, a, PyNone, Uuid(1), now).v[2]
        IN (ret.op = "unformat_message" /\ Arg1 = PyList(<<formatted>>)) =>
              /\ ret.raised = "none"
              /\ Len(ret.value.v) = 1
              /\ \A k \in DOMAIN m.v :
                    ret.value.v[1].v[k] =
                        IF m.v[k] = PyNone THEN PyStr(<<>>)
                        ELSE PyStr(Lower(Str(m.v[k])))
              /\ timestamp \in DOMAIN ret.value.v[1].v
              /\ (DOMAIN ret.value.v[1].v) \ (DOMAIN m.v)
                     \subseteq (IF a = PyStr(put) THEN {timestamp, message_id}
                                ELSE {timestamp})

\* unformat_message was given the list of the message format_message(M2)
\* returns and unformatted None, an uppercase string and a number
C17_Witness ==
    /\ ret.op = "unformat_message"
    /\ Arg1 = PyList(<<format_message(M2, PyNone, PyNone, Uuid(1),
                                      PyDatetime(2021)).v[2]>>)
    /\ ret.raised = "none"
    /\ ret.value.v[1].v[position] = PyStr(<<>>)
    /\ ret.value.v[1].v[country_attr] = PyStr(cl)
    /\ ret.value.v[1].v[parent_id] = PyStr(<<"2", "2">>)

\* the items the latest upload_table handed to put_item, in order
Handed == ret.item.v

\* the number of leading items of _source whose post returned
Uploaded ==
    IF ret.raised = "none" \/ ret.raised = "ValueError"
    THEN Len(Handed) ELSE Len(Handed) - 1

C20_BatchesBoundedFreshDistinct ==
    /\ \A b \in 1..Len(batches) : Len(batches[b]) <= 25
    /\ \A b1, b2 \in 1..Len(batches) :
          \A i1 \in 1..Len(batches[b1]), i2 \in 1..Len(batches[b2]) :
              batches[b1][i1].DeleteRequest.Key = batches[b2][i2].DeleteRequest.Key
                  => (b1 = b2 /\ i1 = i2)
    /\ (pc \in {"scan", "done"} /\ batches # <<>>) =>
          LET sent == batches[Len(batches)]
          IN \A i \in 1..Len(sent) :
                \E j \in 1..Len(all_items) :
                    /\ sent[i].DeleteRequest.Key[message_id]
                          = all_items[j].v[message_id]
                    /\ sent[i].DeleteRequest.Key[timestamp]
                          = all_items[j].v[timestamp]

\* truncate_table has ended after two batch_write_item calls, the first
\* with 25 delete requests and the second with the rest
C20_Witness ==
    /\ pc = "done"
    /\ Len(batches) = 2
    /\ Len(batches[1]) = 25
    /\ Len(batches[2]) >= 1

\* the Items of the responses of the scans ss, concatenated in order
RECURSIVE PagesItems(_)
PagesItems(ss) ==
    IF ss = <<>> THEN <<>>
    ELSE PagesItems(SubSeq(ss, 1, Len(ss) - 1)) \o ss[Len(ss)].response.Items

\* the items of the table the latest get_column asked for: the items that
\* pass the filters, in table order, projected on the table key and attr_name
Collected ==
    ResourceScanPage(table, Len(table) + 1, 0, TableKey(key_schema),
                     Arg2.v, Arg3).Items

\* the scans of get_column form a chain and its data are their Items
GetColumnChain ==
    ret.op = "get_column" =>
        /\ \A i \in 1..Len(scans) :
              scans[i].ExclusiveStartKey =
                  IF i = 1 THEN 0 ELSE scans[i - 1].response.LastEvaluatedKey
        /\ \A i \in 1..(Len(scans) - 1) :
              scans[i].response.LastEvaluatedKey # 0
        /\ (pc = "column" => data = PagesItems(scans))
        /\ (pc = "idle" /\ ret.store = "ok") =>
              scans[Len(scans)].response.LastEvaluatedKey = 0
        /\ (pc = "idle" /\ ret.raised = "none") =>
              /\ ret.value = PyList(PagesItems(scans))
              /\ ret.value = PyList(Collected)

\* C13: get_column scans on, each scan starting at the LastEvaluatedKey of
\* the response before, until a response has no LastEvaluatedKey; the list
\* it returns is the concatenation in page order of the Items of every
\* page, with and without filters; and once started it comes to an end.
C13_GetColumnCollectsEveryPage ==
    []GetColumnChain /\ ((pc = "column") ~> (pc = "idle"))

\* get_column has returned the items of three pages of a filtered scan
C13_Witness ==
    /\ ret.op = "get_column"
    /\ pc = "idle"
    /\ ret.raised = "none"
    /\ Truthy(Arg3)
    /\ Len(scans) = 3
    /\ Len(ret.value.v) >= 2

\* the partition key attribute of the table
PartitionKey == key_schema[1].AttributeName

\* C14: get_item with a string key sends the store the Key {partition key
\* attribute: key}, for a table with a partition key only and for a table
\* with a partition key and a sort key, and returns the item with that
\* partition key, or None when there is none.
C14_StringKeyIsPartitionKey ==
    (ret.op = "get_item" /\ IsStr(Arg2) /\ IsDict(ret.item)) =>
        /\ ret.item = PyDict((PartitionKey :> Arg2))
        /\ (ret.store = "ok" =>
               /\ ret.raised = "none"
               /\ LET hits == {i \in 1..Len(table) :
                                  table[i][PartitionKey].S = Arg2}
                  IN IF hits = {} THEN ret.value = PyNone
                     ELSE \E i \in hits : ret.value = DeserializeItem(table[i]))

\* C18: get_column raises AttributeError when the scans returned no item
\* and when no returned item has attr_name; otherwise it returns all the
\* collected items, also when some of them lack attr_name; a client error
\* of the store is raised as NotImplementedError.
C18_GetColumnOutcome ==
    (ret.op = "get_column" /\ pc = "idle") =>
        /\ (ret.store \in {"ResourceNotFoundException", "ValidationException"}
               => ret.raised = "NotImplementedError")
        /\ (ret.store = "ok" =>
               IF Collected = <<>> THEN ret.raised = "AttributeError"
               ELSE IF \A i \in 1..Len(Collected) :
                          Arg2.v \notin DOMAIN Collected[i].v
               THEN ret.raised = "AttributeError"
               ELSE ret.raised = "none" /\ ret.value = PyList(Collected))

\* get_column has returned items of which one has attr_name and one lacks it
C18_Witness ==
    /\ ret.op = "get_column"
    /\ pc = "idle"
    /\ ret.raised = "none"
    /\ \E i \in 1..Len(ret.value.v) : Arg2.v \in DOMAIN ret.value.v[i].v
    /\ \E i \in 1..Len(ret.value.v) : Arg2.v \notin DOMAIN ret.value.v[i].v

====
